---- MODULE Spec2Model ----
(***************************************************************************)
(* BusTub storage core: the LRU-K replacer (buffer/lru_k_replacer.cpp) and *)
(* the buffer pool manager (buffer/buffer_pool_manager.cpp) that owns it.  *)
(*                                                                         *)
(* The replacer keeps its nodes behind shared pointers: the same node may  *)
(* be referenced from node_store_, less_k_list and more_k_list.  The model *)
(* keeps the pointees in `heap` (node id -> node) and the three containers *)
(* hold node ids, so that std::list::remove(shared_ptr) and                *)
(* unordered_map::erase(frame_id) act on exactly what the code acts on.    *)
(***************************************************************************)
EXTENDS Integers, Sequences, FiniteSets, TLC

(***************************************************************************)
(* Bounds of the model.                                                    *)
(***************************************************************************)
MaxPoolSize == 2     \* the pool is constructed with pool_size in 1 .. MaxPoolSize
MaxK == 3            \* the replacer is constructed with k in 1 .. MaxK
MaxTime == 4         \* cap on current_timestamp_ (number of RecordAccess calls)
MaxAccess == 3       \* the same cap for callers that never write page memory
MaxPages == 3        \* cap on next_page_id_: page ids are 0 .. MaxPages-1
MaxPin == 2          \* cap on the pin count a caller drives a page to
MaxData == 1         \* page contents are 0 (zeroed memory) .. MaxData
MaxValue == 1        \* trie values of type uint32_t are 1 .. MaxValue
MaxTrieOps == 3      \* cap on the number of Put and Remove calls on the trie
MaxThreads == 2      \* threads calling the guard-returning operations

(***************************************************************************)
(* Program constants.                                                      *)
(***************************************************************************)
INVALID_PAGE_ID == -1
INVALID_FRAME_ID == -1

PageIds == 0 .. (MaxPages - 1)

VARIABLES
    replacer_,       \* the LRUKReplacer object (record of its members)
    pages_,          \* frame id -> Page (page_id_, pin_count_, is_dirty_, data_)
    page_table_,     \* page id -> frame id, for resident pages only
    free_list_,      \* std::list<frame_id_t>
    next_page_id_,   \* AllocatePage counter
    disk,            \* disk manager: page id -> persisted content
    result,          \* what the last call returned and the disk calls it made
    held,            \* history: page id -> pins handed out minus pins given back
    since,           \* history: the same, counted since the page was last loaded
    lastw,           \* history: page id -> last content a caller wrote to it
                     \* (what the disk holds, once DeletePage dropped the page)
    owed,            \* history: page id -> written since its last unpin(dirty)
    trie_heap,       \* shared_ptr pointees: node id -> TrieNode
    root_,           \* root of the trie the last call returned (0: nullptr)
    old_root_,       \* root of the trie the last call was made on
    trie_call,       \* the last call on the trie: its name and arguments
    trie_ops,        \* history: number of Put and Remove calls made
    latch_,          \* the manager mutex: the thread holding it (0: free)
    rwlatch_,        \* frame id -> the page's reader/writer latch
    thread           \* thread id -> where the thread is in its call or guard


vars == <<replacer_, pages_, page_table_, free_list_, next_page_id_, disk,
          result, held, since, lastw, owed,
          trie_heap, root_, old_root_, trie_call, trie_ops,
          latch_, rwlatch_, thread>>

bpmvars == <<pages_, page_table_, free_list_, next_page_id_, disk,
             held, since, lastw, owed>>

trievars == <<trie_heap, root_, old_root_, trie_call, trie_ops>>

guardvars == <<latch_, rwlatch_, thread>>

\* what a call made directly on the pool or the replacer leaves alone
othervars == <<trievars, guardvars>>

(***************************************************************************)
(* Small helpers on sequences and functions.                               *)
(***************************************************************************)
SetMax(S) == CHOOSE x \in S : \A y \in S : y <= x
SetMin(S) == CHOOSE x \in S : \A y \in S : x <= y
Range(s) == {s[i] : i \in 1 .. Len(s)}
MapErase(m, key) == [x \in (DOMAIN m) \ {key} |-> m[x]]
MapPut(m, key, v) == [x \in (DOMAIN m) \cup {key} |-> IF x = key THEN v ELSE m[x]]
EmptyMap == [x \in {} |-> 0]

\* std::list::remove(value): erases every element equal to value
ListRemove(list, n) == SelectSeq(list, LAMBDA x : x # n)
\* std::list::push_front
ListPushFront(list, n) == <<n>> \o list
\* std::list::insert(pos, value): value goes before the element at index pos
ListInsert(list, pos, n) ==
    SubSeq(list, 1, pos - 1) \o <<n>> \o SubSeq(list, pos, Len(list))

(***************************************************************************)
(* LRUKNode.  Its members live in lru_k_replacer.h; only add_timestamp is  *)
(* defined in the .cpp file.                                               *)
(***************************************************************************)
\* is_evictable_ of a freshly constructed node
DefaultEvictable == FALSE

NewNode(fid) == [fid_ |-> fid, history_ |-> <<>>, is_evictable_ |-> DefaultEvictable]

add_timestamp(node, k, timestamp) ==
    LET h == Append(node.history_, timestamp)
    IN [node EXCEPT !.history_ = IF Len(h) > k THEN Tail(h) ELSE h]

get_access_count(node) == Len(node.history_)
get_least_recent_timestamp(node) == node.history_[1]

(***************************************************************************)
(* LRUKReplacer.                                                           *)
(***************************************************************************)
NewReplacer(num_frames, k) ==
    [replacer_size_ |-> num_frames, k_ |-> k, current_timestamp_ |-> 0,
     curr_size_ |-> 0, node_store_ |-> EmptyMap, less_k_list |-> <<>>,
     more_k_list |-> <<>>, heap |-> EmptyMap]

\* shared_ptr ownership: a node lives while a container still refers to it
Referenced(r) ==
    {r.node_store_[f] : f \in DOMAIN r.node_store_}
        \cup Range(r.less_k_list) \cup Range(r.more_k_list)
Release(r) == [r EXCEPT !.heap = [n \in Referenced(r) |-> r.heap[n]]]
\* make_shared: a fresh pointee
FreshNode(r) == SetMin((1 .. (Cardinality(DOMAIN r.heap) + 1)) \ DOMAIN r.heap)

\* std::find_if(list.rbegin(), list.rend(), is_evictable): index, 0 for rend
FindEvictableFromBack(r, list) ==
    LET idx == {i \in 1 .. Len(list) : r.heap[list[i]].is_evictable_}
    IN IF idx = {} THEN 0 ELSE SetMax(idx)

more_k_list_push_node(r, n) ==
    LET list == r.more_k_list
        idx == {i \in 1 .. Len(list) :
                  get_least_recent_timestamp(r.heap[list[i]])
                      < get_least_recent_timestamp(r.heap[n])}
        pos == IF idx = {} THEN Len(list) + 1 ELSE SetMin(idx)
    IN [r EXCEPT !.more_k_list = ListInsert(list, pos, n)]

\* Evict: [ok, frame_id, r]
EvictFrom(r, which) ==
    LET list == IF which = "less" THEN r.less_k_list ELSE r.more_k_list
        i == FindEvictableFromBack(r, list)
        n == list[i]
        fid == r.heap[n].fid_
        r1 == IF which = "less"
              THEN [r EXCEPT !.less_k_list = ListRemove(list, n)]
              ELSE [r EXCEPT !.more_k_list = ListRemove(list, n)]
        r2 == [r1 EXCEPT !.node_store_ = MapErase(r1.node_store_, fid),
                         !.curr_size_ = r1.curr_size_ - 1]
    IN [ok |-> TRUE, frame_id |-> fid, r |-> Release(r2)]

\* the full-K list is scanned before the sub-K list
ReplacerEvict_FullKFirst(r) ==
    IF r.curr_size_ = 0
    THEN [ok |-> FALSE, frame_id |-> INVALID_FRAME_ID, r |-> r]
    ELSE IF r.more_k_list # <<>> /\ FindEvictableFromBack(r, r.more_k_list) # 0
    THEN EvictFrom(r, "more")
    ELSE IF r.less_k_list # <<>> /\ FindEvictableFromBack(r, r.less_k_list) # 0
    THEN EvictFrom(r, "less")
    ELSE [ok |-> FALSE, frame_id |-> INVALID_FRAME_ID, r |-> r]

ReplacerEvict(r) ==
    IF r.curr_size_ = 0
    THEN [ok |-> FALSE, frame_id |-> INVALID_FRAME_ID, r |-> r]
    ELSE IF r.less_k_list # <<>> /\ FindEvictableFromBack(r, r.less_k_list) # 0
    THEN EvictFrom(r, "less")
    ELSE IF r.more_k_list # <<>> /\ FindEvictableFromBack(r, r.more_k_list) # 0
    THEN EvictFrom(r, "more")
    ELSE [ok |-> FALSE, frame_id |-> INVALID_FRAME_ID, r |-> r]

\* a sub-K node keeps its place in less_k_list when it is accessed again
ReplacerRecordAccess_KeepsPosition(r, frame_id) ==
    LET ts == r.current_timestamp_ + 1
        r0 == [r EXCEPT !.current_timestamp_ = ts]
    IN IF frame_id \notin DOMAIN r0.node_store_
       THEN LET n == FreshNode(r0)
                node == add_timestamp(NewNode(frame_id), r0.k_, ts)
            IN [r0 EXCEPT !.heap = MapPut(r0.heap, n, node),
                          !.node_store_ = MapPut(r0.node_store_, frame_id, n),
                          !.curr_size_ = r0.curr_size_ + 1,
                          !.less_k_list = ListPushFront(r0.less_k_list, n)]
       ELSE LET n == r0.node_store_[frame_id]
                node == add_timestamp(r0.heap[n], r0.k_, ts)
                r1 == [r0 EXCEPT !.heap[n] = node]
            IN IF get_access_count(r0.heap[n]) < r0.k_
               THEN IF get_access_count(node) = r0.k_
                    THEN LET r2 == more_k_list_push_node(r1, n)
                         IN [r2 EXCEPT !.less_k_list = ListRemove(r2.less_k_list, n)]
                    ELSE r1
               ELSE more_k_list_push_node(
                        [r1 EXCEPT !.more_k_list = ListRemove(r1.more_k_list, n)], n)

ReplacerRecordAccess(r, frame_id) ==
    LET ts == r.current_timestamp_ + 1
        r0 == [r EXCEPT !.current_timestamp_ = ts]
    IN IF frame_id \notin DOMAIN r0.node_store_
       THEN LET n == FreshNode(r0)
                node == add_timestamp(NewNode(frame_id), r0.k_, ts)
            IN [r0 EXCEPT !.heap = MapPut(r0.heap, n, node),
                          !.node_store_ = MapPut(r0.node_store_, frame_id, n),
                          !.curr_size_ = r0.curr_size_ + 1,
                          !.less_k_list = ListPushFront(r0.less_k_list, n)]
       ELSE LET n == r0.node_store_[frame_id]
                node == add_timestamp(r0.heap[n], r0.k_, ts)
                r1 == [r0 EXCEPT !.heap[n] = node]
            IN IF get_access_count(r0.heap[n]) < r0.k_
               THEN IF get_access_count(node) = r0.k_
                    THEN LET r2 == more_k_list_push_node(r1, n)
                         IN [r2 EXCEPT !.less_k_list = ListRemove(r2.less_k_list, n)]
                    ELSE [r1 EXCEPT !.less_k_list =
                             ListPushFront(ListRemove(r1.less_k_list, n), n)]
               ELSE more_k_list_push_node(
                        [r1 EXCEPT !.more_k_list = ListRemove(r1.more_k_list, n)], n)

ReplacerSetEvictable(r, frame_id, set_evictable) ==
    IF frame_id \notin DOMAIN r.node_store_
    THEN r
    ELSE LET n == r.node_store_[frame_id]
         IN IF r.heap[n].is_evictable_ = set_evictable
            THEN r
            ELSE [r EXCEPT !.heap[n].is_evictable_ = set_evictable,
                           !.curr_size_ = IF set_evictable THEN r.curr_size_ + 1
                                          ELSE r.curr_size_ - 1]

\* a non-evictable frame is skipped silently instead of raising
ReplacerRemove_SkipsNonEvictable(r, frame_id) ==
    IF frame_id \notin DOMAIN r.node_store_
    THEN [thrown |-> FALSE, r |-> r]
    ELSE LET n == r.node_store_[frame_id]
         IN IF ~r.heap[n].is_evictable_
            THEN [thrown |-> FALSE, r |-> r]
            ELSE LET r1 == [r EXCEPT !.node_store_ = MapErase(r.node_store_, frame_id)]
                     r2 == IF get_access_count(r.heap[n]) < r.k_
                           THEN [r1 EXCEPT !.less_k_list = ListRemove(r1.less_k_list, n)]
                           ELSE [r1 EXCEPT !.more_k_list = ListRemove(r1.more_k_list, n)]
                 IN [thrown |-> FALSE,
                     r |-> Release([r2 EXCEPT !.curr_size_ = r2.curr_size_ - 1])]

\* Remove: [thrown, r]
ReplacerRemove(r, frame_id) ==
    IF frame_id \notin DOMAIN r.node_store_
    THEN [thrown |-> FALSE, r |-> r]
    ELSE LET n == r.node_store_[frame_id]
         IN IF ~r.heap[n].is_evictable_
            THEN [thrown |-> TRUE, r |-> r]
            ELSE LET r1 == [r EXCEPT !.node_store_ = MapErase(r.node_store_, frame_id)]
                     r2 == IF get_access_count(r.heap[n]) < r.k_
                           THEN [r1 EXCEPT !.less_k_list = ListRemove(r1.less_k_list, n)]
                           ELSE [r1 EXCEPT !.more_k_list = ListRemove(r1.more_k_list, n)]
                 IN [thrown |-> FALSE,
                     r |-> Release([r2 EXCEPT !.curr_size_ = r2.curr_size_ - 1])]

ReplacerSize(r) == r.curr_size_

(***************************************************************************)
(* The value a call leaves behind for its caller.                          *)
(***************************************************************************)
Result(op, ok, thrown, out, io) ==
    [op |-> op, ok |-> ok, thrown |-> thrown, out |-> out, io |-> io]

(***************************************************************************)
(* Initial state: BufferPoolManager(pool_size, disk_manager, replacer_k).  *)
(***************************************************************************)
NewPageObject == [page_id_ |-> INVALID_PAGE_ID, pin_count_ |-> 0,
                  is_dirty_ |-> FALSE, data_ |-> 0]

Init ==
    /\ \E pool_size \in 1 .. MaxPoolSize, replacer_k \in 1 .. MaxK :
          /\ replacer_ = NewReplacer(pool_size, replacer_k)
          /\ pages_ = [f \in 0 .. (pool_size - 1) |-> NewPageObject]
          /\ free_list_ = [i \in 1 .. pool_size |-> i - 1]
    /\ page_table_ = EmptyMap
    /\ next_page_id_ = 0
    /\ disk = [p \in PageIds |-> 0]
    /\ result = Result("init", TRUE, FALSE, -1, {})
    /\ held = [p \in PageIds |-> 0]
    /\ since = [p \in PageIds |-> 0]
    /\ lastw = [p \in PageIds |-> 0]
    /\ owed = [p \in PageIds |-> FALSE]
    /\ trie_heap = EmptyMap
    /\ root_ = 0
    /\ old_root_ = 0
    /\ trie_call = [op |-> "Trie", key |-> <<>>, value |-> [type |-> "none", v |-> 0]]
    /\ trie_ops = 0
    /\ latch_ = 0
    /\ rwlatch_ = [f \in DOMAIN pages_ |-> [readers |-> {}, writer |-> 0]]
    /\ thread = [t \in 1 .. MaxThreads |->
                    [pc |-> "idle", kind |-> "none", page_id |-> -1, frame |-> -1]]

(***************************************************************************)
(* The replacer driven directly through its public interface.              *)
(***************************************************************************)
\* the frame ids callers pass: [0, num_frames)
FrameIds == 0 .. (replacer_.replacer_size_ - 1)

\* the replacer's clock has not reached the cap
ClockBelow(cap) == replacer_.current_timestamp_ < cap

\* BUSTUB_ASSERT(frame_id < static_cast<frame_id_t>(replacer_size_), ...)
FrameIdAsserted(frame_id) == frame_id < replacer_.replacer_size_
\* the assertion failed: the process aborts inside the call
Abort ==
    /\ result' = Result("abort", FALSE, FALSE, -1, {})
    /\ UNCHANGED <<replacer_, bpmvars>>

RecordAccess(frame_id) ==
    IF ~FrameIdAsserted(frame_id)
    THEN Abort
    ELSE /\ replacer_' = ReplacerRecordAccess(replacer_, frame_id)
         /\ result' = Result("RecordAccess", TRUE, FALSE, -1, {})
         /\ UNCHANGED bpmvars

SetEvictable(frame_id, set_evictable) ==
    IF ~FrameIdAsserted(frame_id)
    THEN Abort
    ELSE /\ replacer_' = ReplacerSetEvictable(replacer_, frame_id, set_evictable)
         /\ result' = Result("SetEvictable", TRUE, FALSE, -1, {})
         /\ UNCHANGED bpmvars

Remove(frame_id) ==
    IF ~FrameIdAsserted(frame_id)
    THEN Abort
    ELSE LET rm == ReplacerRemove(replacer_, frame_id)
         IN /\ replacer_' = rm.r
            /\ result' = Result("Remove", ~rm.thrown, rm.thrown, -1, {})
            /\ UNCHANGED bpmvars

Evict ==
    LET ev == ReplacerEvict(replacer_)
    IN /\ replacer_' = ev.r
       /\ result' = Result("Evict", ev.ok, FALSE, ev.frame_id, {})
       /\ UNCHANGED bpmvars

NextReplacer ==
    \/ \E f \in FrameIds : ClockBelow(MaxTime) /\ RecordAccess(f) /\ UNCHANGED othervars
    \/ \E f \in FrameIds, b \in BOOLEAN : SetEvictable(f, b) /\ UNCHANGED othervars
    \/ \E f \in FrameIds : Remove(f) /\ UNCHANGED othervars
    \/ Evict /\ UNCHANGED othervars

SpecReplacer == Init /\ [][NextReplacer]_vars

\* Callers that also pass frame ids outside [0, num_frames): frame_id_t is a
\* signed type, so the id below the range and the id above it.
AnyFrameIds == -1 .. replacer_.replacer_size_

NextReplacerAnyId ==
    \/ \E f \in AnyFrameIds : ClockBelow(MaxTime) /\ RecordAccess(f) /\ UNCHANGED othervars
    \/ \E f \in AnyFrameIds, b \in BOOLEAN : SetEvictable(f, b) /\ UNCHANGED othervars
    \/ \E f \in AnyFrameIds : Remove(f) /\ UNCHANGED othervars
    \/ Evict /\ UNCHANGED othervars

SpecReplacerAnyId == Init /\ [][NextReplacerAnyId]_vars

(***************************************************************************)
(* Page (storage/page/page.h): the metadata and memory of one frame.       *)
(***************************************************************************)
ResetMetadata(page) ==
    [page EXCEPT !.page_id_ = INVALID_PAGE_ID, !.pin_count_ = 0, !.is_dirty_ = FALSE]
ResetMemory(page) == [page EXCEPT !.data_ = 0]
SetPageId(page, page_id) == [page EXCEPT !.page_id_ = page_id]
Pin(page) == [page EXCEPT !.pin_count_ = page.pin_count_ + 1]
Unpin(page) == [page EXCEPT !.pin_count_ = page.pin_count_ - 1]
MarkDirty(page, is_dirty) == [page EXCEPT !.is_dirty_ = is_dirty]

\* one call on the disk manager
WritePage(page_id, data) == [call |-> "WritePage", page_id |-> page_id, data |-> data]
ReadPage(page_id, data) == [call |-> "ReadPage", page_id |-> page_id, data |-> data]

(***************************************************************************)
(* BufferPoolManager::getNewFrame, on the current state.  page_id is the   *)
(* caller's page id (ignored when is_new), the value is the state the      *)
(* helper leaves behind and the frame it hands out.                        *)
(***************************************************************************)
\* the victim's page-table entry is left behind
AcquireFrame_KeepsVictimEntry ==
    IF free_list_ # <<>>
    THEN [ok |-> TRUE, frame_id |-> Head(free_list_), free_list |-> Tail(free_list_),
          replacer |-> replacer_, page_table |-> page_table_, disk |-> disk,
          io |-> {}, victim |-> INVALID_PAGE_ID]
    ELSE LET ev == ReplacerEvict(replacer_)
         IN IF ev.ok
            THEN LET old == pages_[ev.frame_id]
                 IN [ok |-> TRUE, frame_id |-> ev.frame_id, free_list |-> free_list_,
                     replacer |-> ev.r,
                     page_table |-> page_table_,
                     disk |-> IF old.is_dirty_
                              THEN [disk EXCEPT ![old.page_id_] = old.data_]
                              ELSE disk,
                     io |-> IF old.is_dirty_
                            THEN {WritePage(old.page_id_, old.data_)} ELSE {},
                     victim |-> old.page_id_]
            ELSE [ok |-> FALSE, frame_id |-> INVALID_FRAME_ID, free_list |-> free_list_,
                  replacer |-> replacer_, page_table |-> page_table_, disk |-> disk,
                  io |-> {}, victim |-> INVALID_PAGE_ID]

\* the dirty victim is dropped without a write
AcquireFrame_NoWriteBack ==
    IF free_list_ # <<>>
    THEN [ok |-> TRUE, frame_id |-> Head(free_list_), free_list |-> Tail(free_list_),
          replacer |-> replacer_, page_table |-> page_table_, disk |-> disk,
          io |-> {}, victim |-> INVALID_PAGE_ID]
    ELSE LET ev == ReplacerEvict(replacer_)
         IN IF ev.ok
            THEN LET old == pages_[ev.frame_id]
                 IN [ok |-> TRUE, frame_id |-> ev.frame_id, free_list |-> free_list_,
                     replacer |-> ev.r,
                     page_table |-> MapErase(page_table_, old.page_id_),
                     disk |-> disk, io |-> {}, victim |-> old.page_id_]
            ELSE [ok |-> FALSE, frame_id |-> INVALID_FRAME_ID, free_list |-> free_list_,
                  replacer |-> replacer_, page_table |-> page_table_, disk |-> disk,
                  io |-> {}, victim |-> INVALID_PAGE_ID]

\* the first branch: where the frame comes from
AcquireFrame ==
    IF free_list_ # <<>>
    THEN [ok |-> TRUE, frame_id |-> Head(free_list_), free_list |-> Tail(free_list_),
          replacer |-> replacer_, page_table |-> page_table_, disk |-> disk,
          io |-> {}, victim |-> INVALID_PAGE_ID]
    ELSE LET ev == ReplacerEvict(replacer_)
         IN IF ev.ok
            THEN LET old == pages_[ev.frame_id]
                 IN [ok |-> TRUE, frame_id |-> ev.frame_id, free_list |-> free_list_,
                     replacer |-> ev.r,
                     page_table |-> MapErase(page_table_, old.page_id_),
                     disk |-> IF old.is_dirty_
                              THEN [disk EXCEPT ![old.page_id_] = old.data_]
                              ELSE disk,
                     io |-> IF old.is_dirty_
                            THEN {WritePage(old.page_id_, old.data_)} ELSE {},
                     victim |-> old.page_id_]
            ELSE [ok |-> FALSE, frame_id |-> INVALID_FRAME_ID, free_list |-> free_list_,
                  replacer |-> replacer_, page_table |-> page_table_, disk |-> disk,
                  io |-> {}, victim |-> INVALID_PAGE_ID]

getNewFrame(page_id, is_new) ==
    LET a == AcquireFrame
    IN IF ~a.ok
       THEN [ok |-> FALSE, frame_id |-> INVALID_FRAME_ID, page_id |-> page_id,
             replacer |-> replacer_, pages |-> pages_, page_table |-> page_table_,
             free_list |-> free_list_, next_page_id |-> next_page_id_,
             disk |-> disk, io |-> {}, victim |-> INVALID_PAGE_ID]
       ELSE LET pid == IF is_new THEN next_page_id_ ELSE page_id
                frame == Pin(SetPageId(ResetMemory(ResetMetadata(pages_[a.frame_id])), pid))
                r1 == ReplacerRecordAccess(a.replacer, a.frame_id)
                r2 == ReplacerSetEvictable(r1, a.frame_id, FALSE)
            IN [ok |-> TRUE, frame_id |-> a.frame_id, page_id |-> pid,
                replacer |-> r2,
                pages |-> [pages_ EXCEPT ![a.frame_id] = frame],
                page_table |-> MapPut(a.page_table, pid, a.frame_id),
                free_list |-> a.free_list,
                next_page_id |-> IF is_new THEN next_page_id_ + 1 ELSE next_page_id_,
                disk |-> a.disk, io |-> a.io, victim |-> a.victim]

\* history: page_id was loaded into a frame, taking it from the page victim
Loaded(count, victim, page_id) ==
    [p \in PageIds |-> IF p = page_id THEN 1 ELSE IF p = victim THEN 0 ELSE count[p]]

(***************************************************************************)
(* The public operations of the buffer pool manager.                       *)
(***************************************************************************)
NewPage ==
    \E g \in {getNewFrame(INVALID_PAGE_ID, TRUE)} :
       /\ g.ok => next_page_id_ < MaxPages
       /\ replacer_' = g.replacer
       /\ pages_' = g.pages
       /\ page_table_' = g.page_table
       /\ free_list_' = g.free_list
       /\ next_page_id_' = g.next_page_id
       /\ disk' = g.disk
       /\ result' = Result("NewPage", g.ok, FALSE,
                           IF g.ok THEN g.frame_id ELSE -1, g.io)
       /\ held' = IF g.ok THEN [held EXCEPT ![g.page_id] = @ + 1] ELSE held
       /\ since' = IF g.ok THEN Loaded(since, g.victim, g.page_id) ELSE since
       /\ UNCHANGED <<lastw, owed>>

FetchPage(page_id) ==
    /\ page_id < next_page_id_
    /\ IF page_id \notin DOMAIN page_table_
       THEN \E g \in {getNewFrame(page_id, FALSE)} : \E data \in {g.disk[page_id]} :
               /\ replacer_' = g.replacer
               /\ pages_' = IF g.ok THEN [g.pages EXCEPT ![g.frame_id].data_ = data]
                            ELSE g.pages
               /\ page_table_' = g.page_table
               /\ free_list_' = g.free_list
               /\ next_page_id_' = g.next_page_id
               /\ disk' = g.disk
               /\ result' = Result("FetchPage", g.ok, FALSE,
                                   IF g.ok THEN g.frame_id ELSE -1,
                                   IF g.ok THEN g.io \cup {ReadPage(page_id, data)}
                                   ELSE g.io)
               /\ held' = IF g.ok THEN [held EXCEPT ![page_id] = @ + 1] ELSE held
               /\ since' = IF g.ok THEN Loaded(since, g.victim, page_id) ELSE since
       ELSE LET frame_id == page_table_[page_id]
            IN /\ pages_[frame_id].pin_count_ < MaxPin
               /\ pages_' = [pages_ EXCEPT ![frame_id] = Pin(@)]
               /\ replacer_' = ReplacerRecordAccess(
                                   ReplacerSetEvictable(replacer_, frame_id, FALSE),
                                   frame_id)
               /\ result' = Result("FetchPage", TRUE, FALSE, frame_id, {})
               /\ held' = [held EXCEPT ![page_id] = @ + 1]
               /\ since' = [since EXCEPT ![page_id] = @ + 1]
               /\ UNCHANGED <<page_table_, free_list_, next_page_id_, disk>>
    /\ UNCHANGED <<lastw, owed>>

\* the frame is made evictable on every unpin, pinned or not
UnpinPage_EvictableWhilePinned(page_id, is_dirty) ==
    IF page_id \notin DOMAIN page_table_
    THEN /\ result' = Result("UnpinPage", FALSE, FALSE, -1, {})
         /\ UNCHANGED <<replacer_, bpmvars>>
    ELSE LET frame_id == page_table_[page_id]
             frame == pages_[frame_id]
         IN IF frame.pin_count_ = 0
            THEN /\ result' = Result("UnpinPage", FALSE, FALSE, -1, {})
                 /\ UNCHANGED <<replacer_, bpmvars>>
            ELSE LET unpinned == Unpin(MarkDirty(frame, is_dirty \/ frame.is_dirty_))
                 IN /\ pages_' = [pages_ EXCEPT ![frame_id] = unpinned]
                    /\ replacer_' = ReplacerSetEvictable(replacer_, frame_id, TRUE)
                    /\ result' = Result("UnpinPage", TRUE, FALSE,
                                        frame_id, {})
                    /\ held' = [held EXCEPT ![page_id] = @ - 1]
                    /\ since' = [since EXCEPT ![page_id] = @ - 1]
                    /\ owed' = IF is_dirty THEN [owed EXCEPT ![page_id] = FALSE] ELSE owed
                    /\ UNCHANGED <<page_table_, free_list_, next_page_id_, disk,
                                   lastw>>

UnpinPage(page_id, is_dirty) ==
    IF page_id \notin DOMAIN page_table_
    THEN /\ result' = Result("UnpinPage", FALSE, FALSE, -1, {})
         /\ UNCHANGED <<replacer_, bpmvars>>
    ELSE LET frame_id == page_table_[page_id]
             frame == pages_[frame_id]
         IN IF frame.pin_count_ = 0
            THEN /\ result' = Result("UnpinPage", FALSE, FALSE, -1, {})
                 /\ UNCHANGED <<replacer_, bpmvars>>
            ELSE LET unpinned == Unpin(MarkDirty(frame, is_dirty \/ frame.is_dirty_))
                 IN /\ pages_' = [pages_ EXCEPT ![frame_id] = unpinned]
                    /\ replacer_' = IF unpinned.pin_count_ = 0
                                    THEN ReplacerSetEvictable(replacer_, frame_id, TRUE)
                                    ELSE replacer_
                    /\ result' = Result("UnpinPage", TRUE, FALSE,
                                        frame_id, {})
                    /\ held' = [held EXCEPT ![page_id] = @ - 1]
                    /\ since' = [since EXCEPT ![page_id] = @ - 1]
                    /\ owed' = IF is_dirty THEN [owed EXCEPT ![page_id] = FALSE] ELSE owed
                    /\ UNCHANGED <<page_table_, free_list_, next_page_id_, disk,
                                   lastw>>

FlushPage(page_id) ==
    IF page_id \notin DOMAIN page_table_
    THEN /\ result' = Result("FlushPage", FALSE, FALSE, -1, {})
         /\ UNCHANGED <<replacer_, bpmvars>>
    ELSE LET frame_id == page_table_[page_id]
             frame == pages_[frame_id]
         IN /\ disk' = [disk EXCEPT ![page_id] = frame.data_]
            /\ pages_' = [pages_ EXCEPT ![frame_id] = MarkDirty(@, FALSE)]
            /\ result' = Result("FlushPage", TRUE, FALSE, frame_id,
                                {WritePage(page_id, frame.data_)})
            /\ UNCHANGED <<replacer_, page_table_, free_list_, next_page_id_,
                           held, since, lastw, owed>>

FlushAllPages ==
    /\ disk' = [p \in PageIds |-> IF p \in DOMAIN page_table_
                                  THEN pages_[page_table_[p]].data_ ELSE disk[p]]
    /\ pages_' = [f \in DOMAIN pages_ |->
                    IF \E p \in DOMAIN page_table_ : page_table_[p] = f
                    THEN MarkDirty(pages_[f], FALSE) ELSE pages_[f]]
    /\ result' = Result("FlushAllPages", TRUE, FALSE, -1,
                        {WritePage(p, pages_[page_table_[p]].data_) :
                             p \in DOMAIN page_table_})
    /\ UNCHANGED <<replacer_, page_table_, free_list_, next_page_id_,
                   held, since, lastw, owed>>

DeletePage(page_id) ==
    IF page_id \notin DOMAIN page_table_
    THEN /\ result' = Result("DeletePage", TRUE, FALSE, -1, {})
         /\ UNCHANGED <<replacer_, bpmvars>>
    ELSE LET frame_id == page_table_[page_id]
             frame == pages_[frame_id]
             rm == ReplacerRemove(replacer_, frame_id)
         IN IF frame.pin_count_ > 0
            THEN /\ result' = Result("DeletePage", FALSE, FALSE, -1, {})
                 /\ UNCHANGED <<replacer_, bpmvars>>
            ELSE IF rm.thrown
            THEN /\ result' = Result("DeletePage", FALSE, TRUE, -1, {})
                 /\ UNCHANGED <<replacer_, bpmvars>>
            ELSE /\ replacer_' = rm.r
                 /\ page_table_' = MapErase(page_table_, page_id)
                 /\ pages_' = [pages_ EXCEPT ![frame_id] = ResetMetadata(ResetMemory(@))]
                 /\ free_list_' = Append(free_list_, frame_id)
                 /\ result' = Result("DeletePage", TRUE, FALSE,
                                     frame_id, {})
                 /\ since' = [since EXCEPT ![page_id] = 0]
                 /\ lastw' = [lastw EXCEPT ![page_id] = disk[page_id]]
                 /\ owed' = [owed EXCEPT ![page_id] = FALSE]
                 /\ UNCHANGED <<next_page_id_, disk, held>>

\* a holder of a pin writes the page's memory through Page::GetData()
WriteData(page_id, data) ==
    /\ page_id \in DOMAIN page_table_
    /\ pages_[page_table_[page_id]].pin_count_ > 0
    /\ pages_' = [pages_ EXCEPT ![page_table_[page_id]].data_ = data]
    /\ lastw' = [lastw EXCEPT ![page_id] = data]
    /\ owed' = [owed EXCEPT ![page_id] = TRUE]
    /\ result' = Result("WriteData", TRUE, FALSE,
                        page_table_[page_id], {})
    /\ UNCHANGED <<replacer_, page_table_, free_list_, next_page_id_, disk,
                   held, since>>

Next ==
    \/ ClockBelow(MaxAccess) /\ NewPage /\ UNCHANGED othervars
    \/ \E p \in PageIds : ClockBelow(MaxAccess) /\ FetchPage(p) /\ UNCHANGED othervars
    \/ \E p \in PageIds, d \in BOOLEAN : UnpinPage(p, d) /\ UNCHANGED othervars
    \/ \E p \in PageIds : FlushPage(p) /\ UNCHANGED othervars
    \/ FlushAllPages /\ UNCHANGED othervars
    \/ \E p \in PageIds : DeletePage(p) /\ UNCHANGED othervars

Spec == Init /\ [][Next]_vars

\* Callers that also write the memory of the pages they hold, and keep to
\* the contract of UnpinPage: the unpin that takes the pin count to zero
\* passes is_dirty if the page was written and no unpin has passed it since.
OwesDirty(page_id) ==
    /\ page_id \in DOMAIN page_table_
    /\ pages_[page_table_[page_id]].pin_count_ = 1
    /\ owed[page_id]

UnpinPageAsAgreed(page_id, is_dirty) ==
    /\ OwesDirty(page_id) => is_dirty
    /\ UnpinPage(page_id, is_dirty)

NextData ==
    \/ ClockBelow(MaxTime) /\ NewPage /\ UNCHANGED othervars
    \/ \E p \in PageIds : ClockBelow(MaxTime) /\ FetchPage(p) /\ UNCHANGED othervars
    \/ \E p \in PageIds, d \in BOOLEAN : UnpinPageAsAgreed(p, d) /\ UNCHANGED othervars
    \/ \E p \in PageIds : FlushPage(p) /\ UNCHANGED othervars
    \/ FlushAllPages /\ UNCHANGED othervars
    \/ \E p \in PageIds : DeletePage(p) /\ UNCHANGED othervars
    \/ \E p \in PageIds, d \in 1 .. MaxData : WriteData(p, d) /\ UNCHANGED othervars

SpecData == Init /\ [][NextData]_vars

(***************************************************************************)
(* Properties of the replacer.                                             *)
(***************************************************************************)
\* the frames node_store_ maps to a node whose flag is b
TrackedWithFlag(r, b) ==
    {f \in DOMAIN r.node_store_ : r.heap[r.node_store_[f]].is_evictable_ = b}

\* C1: a successful Evict never returns a frame whose node in node_store_ is
\* non-evictable when Evict is called.
C1_EvictNeverReturnsNonEvictable ==
    [][(result'.op = "Evict" /\ result'.ok)
          => result'.out \notin TrackedWithFlag(replacer_, FALSE)]_vars

\* C2: Size() is the number of tracked frames whose evictable flag is true, it
\* never goes below zero, and Evict succeeds exactly when Size() > 0.
C2_SizeCountsEvictable ==
    /\ [](ReplacerSize(replacer_) = Cardinality(TrackedWithFlag(replacer_, TRUE)))
    /\ [](ReplacerSize(replacer_) >= 0)
    /\ [][result'.op = "Evict" => (result'.ok <=> ReplacerSize(replacer_) > 0)]_vars

(***************************************************************************)
(* Properties of the buffer pool manager.                                  *)
(***************************************************************************)
ResidentFrames == {page_table_[p] : p \in DOMAIN page_table_}
\* the frames the replacer holds a node for, in its map or in a list
FramesWithNode(r) == (DOMAIN r.node_store_) \cup {r.heap[n].fid_ : n \in DOMAIN r.heap}

\* C3: every page-table entry p -> f has frame f holding page p, f off the
\* free list, and no other entry mapping to f.
C3_PageTableConsistent ==
    \A p \in DOMAIN page_table_ :
        LET f == page_table_[p]
        IN /\ pages_[f].page_id_ = p
           /\ f \notin Range(free_list_)
           /\ \A q \in DOMAIN page_table_ : q # p => page_table_[q] # f

\* C3 witness: a third page was brought in, so a frame changed hands, and two
\* pages are resident in two frames.
C3_Witness ==
    /\ next_page_id_ = 3
    /\ Cardinality(DOMAIN page_table_) = 2
    /\ Cardinality(ResidentFrames) = 2
    /\ result.op \in {"NewPage", "FetchPage"} /\ result.ok

\* C4: a frame with pin_count > 0 is non-evictable in the replacer, and its
\* page stays in that frame across every operation (it is never the victim).
C4_PinnedNeverEvicted ==
    /\ [](\A f \in FrameIds :
            pages_[f].pin_count_ > 0 => f \in TrackedWithFlag(replacer_, FALSE))
    /\ [][\A f \in FrameIds :
            pages_[f].pin_count_ > 0 => pages_'[f].page_id_ = pages_[f].page_id_]_vars

\* the frames whose dirty page leaves them in this step
DirtyReleased ==
    {f \in FrameIds : /\ pages_[f].page_id_ # INVALID_PAGE_ID
                      /\ pages_[f].is_dirty_
                      /\ pages_'[f].page_id_ # pages_[f].page_id_}

\* C5: whenever the frame of a dirty page is reset, by an eviction in NewPage /
\* FetchPage or by DeletePage, the page was written to the disk manager first.
C5_DirtyWrittenBeforeRelease ==
    [][\A f \in DirtyReleased :
          /\ WritePage(pages_[f].page_id_, pages_[f].data_) \in result'.io
          /\ disk'[pages_[f].page_id_] = pages_[f].data_]_vars

\* C5 as amended: the eviction in NewPage / FetchPage writes the dirty victim
\* before the frame is reset; DeletePage resets the frame of a dirty page
\* without any disk write.
C5_DirtyWrittenOnEviction ==
    [][\A f \in DirtyReleased :
          IF result'.op = "DeletePage"
          THEN result'.io = {} /\ disk' = disk /\ f \in Range(free_list_')
          ELSE /\ result'.op \in {"NewPage", "FetchPage"}
               /\ WritePage(pages_[f].page_id_, pages_[f].data_) \in result'.io
               /\ disk'[pages_[f].page_id_] = pages_[f].data_]_vars

\* C5 witness: a NewPage / FetchPage that evicted a dirty page and wrote it.
C5_Witness ==
    /\ result.op \in {"NewPage", "FetchPage"} /\ result.ok
    /\ \E w \in result.io : w.call = "WritePage"

\* C6: a successful FetchPage(p) hands out a frame holding the last content
\* written to p, provided the callers passed is_dirty after their writes.
C6_FetchReturnsLastWrite ==
    [][\A p \in PageIds :
          (result'.op = "FetchPage" /\ result'.ok /\ FetchPage(p))
              => pages_'[result'.out].data_ = lastw[p]]_vars

\* C7: for a resident page the pin count is the pins handed out since it was
\* loaded minus the successful unpins; it is never negative; the pin counts
\* of the resident frames add up to the pins still outstanding.
C7_PinCountsMatchOutstandingPins ==
    /\ \A p \in DOMAIN page_table_ : pages_[page_table_[p]].pin_count_ = since[p]
    /\ \A f \in FrameIds : pages_[f].pin_count_ >= 0
    /\ \A p \in PageIds :
          held[p] = IF p \in DOMAIN page_table_
                    THEN pages_[page_table_[p]].pin_count_ ELSE 0

\* C8: NewPage and FetchPage of a non-resident page return null exactly when
\* the free list is empty and every resident frame is pinned, and a null
\* return changes nothing.
C8_NullExactlyWhenExhausted ==
    [][(/\ result'.op \in {"NewPage", "FetchPage"}
        /\ NewPage \/ \E p \in PageIds \ DOMAIN page_table_ : FetchPage(p))
          => /\ ~result'.ok <=> /\ free_list_ = <<>>
                                /\ \A f \in ResidentFrames : pages_[f].pin_count_ > 0
             /\ ~result'.ok => UNCHANGED <<page_table_, free_list_, pages_,
                                           replacer_, next_page_id_>>]_vars

\* C9: UnpinPage(p, d) returns false and changes nothing when p is not
\* resident or has pin count zero; otherwise it returns true, takes exactly
\* one pin off, and the frame is evictable afterwards exactly when the pin
\* count reached zero.
C9_UnpinContract ==
    [][\A p \in PageIds, d \in BOOLEAN :
          (result'.op = "UnpinPage" /\ UnpinPage(p, d)) =>
             IF p \notin DOMAIN page_table_ \/ pages_[page_table_[p]].pin_count_ = 0
             THEN ~result'.ok /\ UNCHANGED <<pages_, replacer_, page_table_>>
             ELSE LET f == page_table_[p]
                  IN /\ result'.ok
                     /\ pages_'[f].pin_count_ = pages_[f].pin_count_ - 1
                     /\ f \in TrackedWithFlag(replacer_', TRUE)
                            <=> pages_'[f].pin_count_ = 0]_vars

\* C9 witness: an unpin took a pin count from 2 to 1 and left the frame
\* non-evictable.
C9_Witness ==
    /\ result.op = "UnpinPage" /\ result.ok
    /\ pages_[result.out].pin_count_ = 1
    /\ result.out \in TrackedWithFlag(replacer_, FALSE)

\* C10: DeletePage(p) returns true and changes nothing when p is not resident,
\* returns false and changes nothing when p is pinned, and otherwise returns
\* true leaving p without a page-table entry, its frame reset on the free list
\* and unknown to the replacer, whose Size() went down by one.
C10_DeleteContract ==
    [][\A p \in PageIds :
          (result'.op = "DeletePage" /\ DeletePage(p)) =>
             IF p \notin DOMAIN page_table_
             THEN result'.ok /\ UNCHANGED <<pages_, replacer_, page_table_, free_list_>>
             ELSE IF pages_[page_table_[p]].pin_count_ > 0
             THEN ~result'.ok /\ UNCHANGED <<pages_, replacer_, page_table_, free_list_>>
             ELSE LET f == page_table_[p]
                  IN /\ result'.ok
                     /\ p \notin DOMAIN page_table_'
                     /\ f \in Range(free_list_')
                     /\ pages_'[f].page_id_ = INVALID_PAGE_ID
                     /\ pages_'[f].pin_count_ = 0
                     /\ ~pages_'[f].is_dirty_
                     /\ f \notin FramesWithNode(replacer_')
                     /\ ReplacerSize(replacer_') = ReplacerSize(replacer_) - 1]_vars

(***************************************************************************)
(* Eviction order of the replacer.                                         *)
(***************************************************************************)
\* the node node_store_ holds for frame f
NodeOf(r, f) == r.heap[r.node_store_[f]]
\* the evictable tracked frames with fewer than k_ / at least k_ accesses
SubK(r) == {f \in TrackedWithFlag(r, TRUE) : get_access_count(NodeOf(r, f)) < r.k_}
FullK(r) == {f \in TrackedWithFlag(r, TRUE) : get_access_count(NodeOf(r, f)) >= r.k_}

\* C14: when some frame is evictable and no evictable frame has fewer than K
\* accesses, Evict returns the evictable frame whose oldest history entry
\* (its K-th most recent access) is the smallest.
C14_FullKEvictionOrder ==
    [][(result'.op = "Evict" /\ SubK(replacer_) = {} /\ FullK(replacer_) # {})
         => /\ result'.ok
            /\ result'.out \in FullK(replacer_)
            /\ \A g \in FullK(replacer_) :
                  get_least_recent_timestamp(NodeOf(replacer_, result'.out))
                      <= get_least_recent_timestamp(NodeOf(replacer_, g))]_vars

\* C15: whenever some evictable frame has fewer than K accesses, Evict
\* succeeds and returns a frame with fewer than K accesses.
C15_SubKPriority ==
    [][(result'.op = "Evict" /\ SubK(replacer_) # {})
         => result'.ok /\ result'.out \in SubK(replacer_)]_vars

\* C15 witness: with K = 2 and three accesses made, Evict has returned a frame
\* while another frame with two accesses is still tracked and evictable, so
\* the victim had a single access.
C15_Witness ==
    /\ result.op = "Evict" /\ result.ok
    /\ replacer_.k_ = 2 /\ replacer_.current_timestamp_ = 3
    /\ Cardinality(DOMAIN replacer_.heap) = 1
    /\ \E f \in FullK(replacer_) : f # result.out

\* C16: RecordAccess, SetEvictable and Remove with a frame id outside
\* [0, num_frames), above the range or negative, abort on the assertion and
\* leave the replacer as it was; SetEvictable and Remove with an in-range id
\* the replacer does not track return normally and change nothing.
C16_InvalidFrameIdRejected ==
    [][\A f \in AnyFrameIds :
          /\ (/\ f \notin FrameIds
              /\ \/ RecordAccess(f)
                 \/ \E b \in BOOLEAN : SetEvictable(f, b)
                 \/ Remove(f))
                => result'.op = "abort" /\ replacer_' = replacer_
          /\ (/\ f \in FrameIds
              /\ f \notin DOMAIN replacer_.node_store_
              /\ (\E b \in BOOLEAN : SetEvictable(f, b)) \/ Remove(f))
                => result'.ok /\ replacer_' = replacer_]_vars

\* C17: Remove on a tracked non-evictable frame raises and leaves the replacer
\* as it was, and the buffer pool manager never gets there: when DeletePage
\* reaches the Remove call (resident page, pin count 0) the frame is evictable
\* or has no node in node_store_, and nothing is raised.
C17_RemoveNeverOnNonEvictable ==
    /\ [](\A f \in TrackedWithFlag(replacer_, FALSE) :
             /\ ReplacerRemove(replacer_, f).thrown
             /\ ReplacerRemove(replacer_, f).r = replacer_)
    /\ [][\A p \in DOMAIN page_table_ :
             (pages_[page_table_[p]].pin_count_ = 0 /\ DeletePage(p))
                => /\ page_table_[p] \notin TrackedWithFlag(replacer_, FALSE)
                   /\ ~result'.thrown]_vars

\* C17 witness: DeletePage has removed a resident page's frame while another
\* frame is tracked and non-evictable.
C17_Witness ==
    /\ result.op = "DeletePage" /\ result.ok /\ result.out \in FrameIds
    /\ TrackedWithFlag(replacer_, FALSE) # {}

\* how many times node n occurs in a list
Occurrences(list, n) == Cardinality({i \in 1 .. Len(list) : list[i] = n})

\* C18: every tracked frame's node occurs exactly once across less_k_list and
\* more_k_list, in less_k_list iff its access count is below K and in
\* more_k_list iff it is at least K, and the lists hold no other node.
C18_ListsPartitionTracked ==
    /\ \A f \in DOMAIN replacer_.node_store_ :
          LET n == replacer_.node_store_[f]
              sub == get_access_count(replacer_.heap[n]) < replacer_.k_
          IN /\ Occurrences(replacer_.less_k_list, n)
                   + Occurrences(replacer_.more_k_list, n) = 1
             /\ n \in Range(replacer_.less_k_list) <=> sub
             /\ n \in Range(replacer_.more_k_list) <=> ~sub
    /\ Range(replacer_.less_k_list) \cup Range(replacer_.more_k_list)
          = {replacer_.node_store_[f] : f \in DOMAIN replacer_.node_store_}

\* the timestamp of the node's most recent access
get_most_recent_timestamp(node) == node.history_[Len(node.history_)]

\* C19: whenever some evictable frame has fewer than K accesses, Evict returns
\* the one among them whose most recent access is the oldest.
C19_SubKEvictionOrder ==
    [][(result'.op = "Evict" /\ SubK(replacer_) # {})
         => /\ result'.ok
            /\ result'.out \in SubK(replacer_)
            /\ \A g \in SubK(replacer_) :
                  get_most_recent_timestamp(NodeOf(replacer_, result'.out))
                      <= get_most_recent_timestamp(NodeOf(replacer_, g))]_vars

\* C19 witness: with K = 3, a frame first accessed at time 1 was accessed
\* again at time 3 and is still there; Evict has returned the frame accessed
\* once at time 2.
C19_Witness ==
    /\ result.op = "Evict" /\ result.ok
    /\ replacer_.k_ = 3 /\ replacer_.current_timestamp_ = 3
    /\ Cardinality(DOMAIN replacer_.heap) = 1
    /\ \E f \in SubK(replacer_) :
          f # result.out /\ NodeOf(replacer_, f).history_ = <<1, 3>>

(***************************************************************************)
(* The persistent trie (primer/trie.cpp).  Nodes live behind shared        *)
(* pointers: trie_heap maps a node id to the node, a children_ map holds    *)
(* node ids and root id 0 is the null root of the empty trie.  The caller   *)
(* holds the trie it called on (old_root_) and the trie the call returned   *)
(* (root_); a node is released when neither reaches it.                     *)
(***************************************************************************)
\* the characters keys are made of
Chars == {"a", "b"}
\* the lengths of the keys callers pass: the empty key, and keys that are
\* a prefix or an extension of one another
KeyLengths == {0, 1, 2}
Keys == UNION {[1 .. n -> Chars] : n \in KeyLengths}
\* the value types T the templates are instantiated for
ValueTypes == {"uint32_t", "string"}
Values == [type : {"uint32_t"}, v : 1 .. MaxValue]
             \cup {[type |-> "string", v |-> 1]}
NoValue == [type |-> "none", v |-> 0]
NullNode == 0

\* TrieNode(), TrieNode(children)
TrieNode(children) ==
    [children_ |-> children, is_value_node_ |-> FALSE, value_ |-> NoValue]
\* TrieNodeWithValue<T>(value), TrieNodeWithValue<T>(children, value)
TrieNodeWithValue(children, value) ==
    [children_ |-> children, is_value_node_ |-> TRUE, value_ |-> value]
\* TrieNode::Clone / TrieNodeWithValue<T>::Clone (virtual): a copy of the node
\* with the same children map and, for a value node, the same value
Clone(node) ==
    IF node.is_value_node_
    THEN TrieNodeWithValue(node.children_, node.value_)
    ELSE TrieNode(node.children_)

\* std::make_shared: the id of a fresh pointee
FreshTrieNode(h) == SetMin((1 .. (Cardinality(DOMAIN h) + 1)) \ DOMAIN h)

\* node->children_[c] = child, on the node behind pointer n
SetChild(h, n, c, child) ==
    [h EXCEPT ![n].children_ = MapPut(h[n].children_, c, child)]
\* node->children_.erase(c)
EraseChild(h, n, c) ==
    [h EXCEPT ![n].children_ = MapErase(h[n].children_, c)]

\* the pointers a children_ map holds
MapRange(m) == {m[x] : x \in DOMAIN m}
\* the nodes the roots in S reach in at most n steps
RECURSIVE ReachableFrom(_, _, _)
ReachableFrom(h, S, n) ==
    IF n = 0 THEN S
    ELSE ReachableFrom(h, S \cup UNION {MapRange(h[x].children_) : x \in S}, n - 1)
\* shared_ptr release: only the nodes some root in roots still reaches stay
ReleaseTrie(h, roots) ==
    LET live == ReachableFrom(h, roots \ {NullNode}, Cardinality(DOMAIN h))
    IN [n \in live |-> h[n]]

\* Trie::Get<T>(key) on the trie with root `root`: the value or NoValue
RECURSIVE GetWalk(_, _, _, _)
GetWalk(h, node, key, idx) ==
    IF idx > Len(key) THEN node
    ELSE IF key[idx] \notin DOMAIN h[node].children_ THEN NullNode
    ELSE GetWalk(h, h[node].children_[key[idx]], key, idx + 1)

Get(h, root, key, type) ==
    IF root = NullNode THEN NoValue
    ELSE LET node == GetWalk(h, root, key, 1)
         IN IF node = NullNode THEN NoValue
            ELSE IF ~(h[node].is_value_node_ /\ h[node].value_.type = type)
            THEN NoValue
            ELSE h[node].value_

\* Trie::Put<T>(key, value), the loop over the key from position idx with
\* `node` the freshly built node of the new path: the heap after the loop
RECURSIVE PutLoop(_, _, _, _, _)
PutLoop(h, node, key, idx, value) ==
    \* the new pointee of this iteration (make_shared or Clone)
    LET n == FreshTrieNode(h)
    IN IF key[idx] \notin DOMAIN h[node].children_
       THEN IF idx = Len(key)
            THEN SetChild(MapPut(h, n, TrieNodeWithValue(EmptyMap, value)),
                          node, key[idx], n)
            ELSE PutLoop(SetChild(MapPut(h, n, TrieNode(EmptyMap)),
                                  node, key[idx], n),
                         n, key, idx + 1, value)
       ELSE IF idx = Len(key)
            THEN SetChild(MapPut(h, n, TrieNodeWithValue(
                                           h[h[node].children_[key[idx]]].children_,
                                           value)),
                          node, key[idx], n)
            ELSE PutLoop(SetChild(MapPut(h, n, Clone(h[h[node].children_[key[idx]]])),
                                  node, key[idx], n),
                         n, key, idx + 1, value)

\* a Put that always starts from a new root
PutRoot_NewRoot(h, root) == TrieNode(EmptyMap)
\* the root Put works on: a new TrieNode for the empty trie, else a clone
PutRoot(h, root) ==
    IF root = NullNode THEN TrieNode(EmptyMap) ELSE Clone(h[root])

\* Trie::Put<T>(key, value) on the trie with root `root`: the heap and the
\* root of the returned trie
TriePut(h, root, key, value) ==
    LET n_root == FreshTrieNode(h)
        h1 == MapPut(h, n_root, PutRoot(h, root))
    IN IF key # <<>>
       THEN [heap |-> PutLoop(h1, n_root, key, 1, value), root |-> n_root]
       ELSE [heap |-> MapPut(h1, FreshTrieNode(h1),
                             TrieNodeWithValue(IF root = NullNode THEN EmptyMap
                                               ELSE h[root].children_, value)),
             root |-> FreshTrieNode(h1)]

\* Trie::Remove(key), the loop over the key from position idx: whether the
\* key was found, the heap after the loop and the stack `track` of
\* <<parent, c>> pairs
RECURSIVE RemoveLoop(_, _, _, _, _)
RemoveLoop(h, parent, key, idx, track) ==
    IF key[idx] \notin DOMAIN h[parent].children_
    THEN [found |-> FALSE, heap |-> h, track |-> track]
    ELSE LET child == h[h[parent].children_[key[idx]]]
             n == FreshTrieNode(h)
         IN IF idx = Len(key)
            THEN IF ~child.is_value_node_
                 THEN [found |-> FALSE, heap |-> h, track |-> track]
                 ELSE [found |-> TRUE,
                       heap |-> SetChild(MapPut(h, n, TrieNode(child.children_)),
                                         parent, key[idx], n),
                       track |-> Append(track, <<parent, key[idx]>>)]
            ELSE RemoveLoop(SetChild(MapPut(h, n, Clone(child)), parent, key[idx], n),
                            n, key, idx + 1, Append(track, <<parent, key[idx]>>))

\* the while loop over the stack: a child left with no children and no
\* value is erased from its parent
RECURSIVE RemoveUnwind(_, _)
RemoveUnwind(h, track) ==
    IF track = <<>> THEN h
    ELSE LET parent_pair == track[Len(track)]
             child == h[h[parent_pair[1]].children_[parent_pair[2]]]
         IN RemoveUnwind(IF DOMAIN child.children_ = {} /\ ~child.is_value_node_
                         THEN EraseChild(h, parent_pair[1], parent_pair[2])
                         ELSE h,
                         SubSeq(track, 1, Len(track) - 1))

\* Trie::Remove(key), key empty: the heap and the root of the returned trie
RemoveEmptyKey(h, root, n_root) ==
    IF h[n_root].is_value_node_
    THEN IF DOMAIN h[n_root].children_ = {}
         THEN [heap |-> h, root |-> NullNode]
         ELSE [heap |-> MapPut([h EXCEPT ![n_root].children_ = EmptyMap],
                               FreshTrieNode(h), TrieNode(h[n_root].children_)),
               root |-> FreshTrieNode(h)]
    ELSE [heap |-> h, root |-> root]

\* Trie::Remove(key), after the loops: the trie returned
RemoveReturn(h, n_root) ==
    IF DOMAIN h[n_root].children_ = {}
    THEN [heap |-> h, root |-> NullNode]
    ELSE [heap |-> h, root |-> n_root]

\* a Remove that works on the root itself instead of a clone of it
TrieRemove_InPlace(h, root, key) ==
    IF root = NullNode THEN [heap |-> h, root |-> root]
    ELSE IF key = <<>> THEN RemoveEmptyKey(h, root, root)
    ELSE LET w == RemoveLoop(h, root, key, 1, <<>>)
         IN IF ~w.found THEN [heap |-> w.heap, root |-> root]
            ELSE RemoveReturn(RemoveUnwind(w.heap, w.track), root)

\* Trie::Remove(key) on the trie with root `root`: the heap and the root of
\* the returned trie
TrieRemove(h, root, key) ==
    IF root = NullNode THEN [heap |-> h, root |-> root]
    ELSE LET n_root == FreshTrieNode(h)
             h1 == MapPut(h, n_root, Clone(h[root]))
         IN IF key = <<>> THEN RemoveEmptyKey(h1, root, n_root)
            ELSE LET w == RemoveLoop(h1, n_root, key, 1, <<>>)
                 IN IF ~w.found THEN [heap |-> w.heap, root |-> root]
                    ELSE RemoveReturn(RemoveUnwind(w.heap, w.track), n_root)

(***************************************************************************)
(* The trie driven through its public interface: each call is made on the  *)
(* trie the previous call returned, and the caller keeps the trie it       *)
(* called on next to the one returned.                                     *)
(***************************************************************************)
\* fewer than cap calls were made on the trie
TrieOpsBelow(cap) == trie_ops < cap

Put(key, value) ==
    \E t \in {TriePut(trie_heap, root_, key, value)} :
       /\ trie_heap' = ReleaseTrie(t.heap, {root_, t.root})
       /\ root_' = t.root
       /\ old_root_' = root_
       /\ trie_call' = [op |-> "Put", key |-> key, value |-> value]
       /\ trie_ops' = trie_ops + 1
       /\ UNCHANGED <<replacer_, result, bpmvars, guardvars>>

RemoveKey(key) ==
    \E t \in {TrieRemove(trie_heap, root_, key)} :
       /\ trie_heap' = ReleaseTrie(t.heap, {root_, t.root})
       /\ root_' = t.root
       /\ old_root_' = root_
       /\ trie_call' = [op |-> "Remove", key |-> key, value |-> NoValue]
       /\ trie_ops' = trie_ops + 1
       /\ UNCHANGED <<replacer_, result, bpmvars, guardvars>>

\* the trie is exercised next to the smallest pool
InitTrie ==
    /\ Init
    /\ replacer_.replacer_size_ = 1
    /\ replacer_.k_ = 1

NextTrie ==
    \/ \E key \in Keys, value \in Values : TrieOpsBelow(MaxTrieOps) /\ Put(key, value)
    \/ \E key \in Keys : TrieOpsBelow(MaxTrieOps) /\ RemoveKey(key)

SpecTrie == InitTrie /\ [][NextTrie]_vars

(***************************************************************************)
(* Properties of the trie.                                                 *)
(***************************************************************************)
\* C11: t.put(k, v).get<T>(k) is v, for every reachable trie t, key k (the
\* empty key, prefixes and extensions of stored keys included) and value v
\* of type T, and for every other key k' and type U the returned trie
\* answers get<U>(k') as t did.
C11_PutGetRoundTrip ==
    [][trie_call'.op = "Put" =>
          /\ Get(trie_heap', root_', trie_call'.key, trie_call'.value.type)
                = trie_call'.value
          /\ \A other \in Keys \ {trie_call'.key}, type \in ValueTypes :
                Get(trie_heap', root_', other, type)
                   = Get(trie_heap, root_, other, type)]_vars

\* a put of a key that is a proper prefix of a stored key and whose node
\* existed as a plain node: both keys answer afterwards
C11_Witness ==
    /\ trie_call.op = "Put"
    /\ trie_call.key = <<"a">>
    /\ Get(trie_heap, old_root_, <<"a">>, trie_call.value.type) = NoValue
    /\ Get(trie_heap, old_root_, <<"a", "b">>, "string") # NoValue
    /\ Get(trie_heap, root_, <<"a", "b">>, "string") # NoValue
    /\ Get(trie_heap, root_, <<"a">>, trie_call.value.type) = trie_call.value

\* the nodes reachable from the root of the trie the next call is made on
OldNodes == ReachableFrom(trie_heap, {root_} \ {NullNode}, Cardinality(DOMAIN trie_heap))

\* C12: computing t.put(k, v) or t.remove(k) leaves t as it was: afterwards
\* t answers get<U>(k') for every key k' and type U as before the call, and
\* every node reachable from t's root is still there with the same children
\* and value.
C12_OldTrieUnchanged ==
    [][trie_call'.op \in {"Put", "Remove"} =>
          /\ old_root_' = root_
          /\ \A key \in Keys, type \in ValueTypes :
                Get(trie_heap', old_root_', key, type)
                   = Get(trie_heap, root_, key, type)
          /\ \A n \in OldNodes :
                n \in DOMAIN trie_heap' /\ trie_heap'[n] = trie_heap[n]]_vars

\* a remove that took a stored key out of a trie holding a longer key on the
\* same path: the path was rebuilt, the old trie still holds both keys
C12_Witness ==
    /\ trie_call.op = "Remove"
    /\ trie_call.key = <<"a">>
    /\ root_ # old_root_
    /\ Get(trie_heap, old_root_, <<"a">>, "string") # NoValue
    /\ Get(trie_heap, old_root_, <<"a", "b">>, "uint32_t") # NoValue
    /\ Get(trie_heap, root_, <<"a">>, "string") = NoValue
    /\ Get(trie_heap, root_, <<"a", "b">>, "uint32_t") # NoValue

\* C13: t.remove(k) answers get<U>(k') as t did, for every key k' other
\* than k (the empty key stored at the root included) and every type U; the
\* returned trie is the empty one only when t held no value under a key
\* other than k.
C13_RemoveAffectsOnlyKey ==
    [][trie_call'.op = "Remove" =>
          /\ \A other \in Keys \ {trie_call'.key}, type \in ValueTypes :
                Get(trie_heap', root_', other, type)
                   = Get(trie_heap, root_, other, type)
          /\ root_' = NullNode =>
                \A other \in Keys \ {trie_call'.key}, type \in ValueTypes :
                   Get(trie_heap, root_, other, type) = NoValue]_vars

(***************************************************************************)
(* Threads calling the guard-returning operations (FetchPageRead,          *)
(* FetchPageWrite, NewPageGuarded) and dropping the guards.  A call takes   *)
(* the manager mutex (std::scoped_lock lock(latch_)), runs the body of      *)
(* FetchPage or NewPage and releases the mutex on return; the page latch    *)
(* is taken after that.  Dropping a guard releases the page latch and then  *)
(* calls UnpinPage.                                                         *)
(***************************************************************************)
Threads == 1 .. MaxThreads
GuardKinds == {"basic", "read", "write"}
IdleThread == [pc |-> "idle", kind |-> "none", page_id |-> -1, frame |-> -1]

\* std::scoped_lock lock(latch_) at the start of FetchPage / NewPage, reached
\* through FetchPageRead, FetchPageWrite (page_id) or NewPageGuarded; blocks
\* while another thread holds the mutex
CallLock(t, kind, page_id) ==
    /\ thread[t].pc = "idle"
    /\ latch_ = 0
    /\ IF kind = "basic"
       THEN page_id = INVALID_PAGE_ID /\ next_page_id_ < MaxPages
       ELSE /\ page_id \in PageIds
            /\ page_id < next_page_id_
            /\ page_id \in DOMAIN page_table_
                  => pages_[page_table_[page_id]].pin_count_ < MaxPin
    /\ latch_' = t
    /\ thread' = [thread EXCEPT ![t] = [pc |-> "locked", kind |-> kind,
                                        page_id |-> page_id, frame |-> -1]]
    /\ UNCHANGED <<replacer_, result, bpmvars, rwlatch_>>

\* FetchPageRead / FetchPageWrite: auto page = FetchPage(page_id); the mutex
\* is released when FetchPage returns; a null page gives a null guard
FetchPageReturn(t) ==
    /\ thread[t].pc = "locked"
    /\ thread[t].kind \in {"read", "write"}
    /\ latch_ = t
    /\ FetchPage(thread[t].page_id)
    /\ latch_' = 0
    /\ thread' = [thread EXCEPT ![t] =
                     IF result'.ok
                     THEN [@ EXCEPT !.pc = "fetched", !.frame = result'.out]
                     ELSE IdleThread]
    /\ UNCHANGED rwlatch_

\* NewPageGuarded: auto page = NewPage(page_id); return BasicPageGuard
NewPageGuarded(t) ==
    /\ thread[t].pc = "locked"
    /\ thread[t].kind = "basic"
    /\ latch_ = t
    /\ NewPage
    /\ latch_' = 0
    /\ thread' = [thread EXCEPT ![t] =
                     IF result'.ok
                     THEN [@ EXCEPT !.pc = "guard", !.frame = result'.out,
                                    !.page_id = pages_'[result'.out].page_id_]
                     ELSE IdleThread]
    /\ UNCHANGED rwlatch_

\* page->RLatch() / page->WLatch(): blocks while the latch cannot be had
PageLatch(t) ==
    /\ thread[t].pc = "fetched"
    /\ rwlatch_[thread[t].frame].writer = 0
    /\ thread[t].kind = "write" => rwlatch_[thread[t].frame].readers = {}
    /\ rwlatch_' = [rwlatch_ EXCEPT ![thread[t].frame] =
                       IF thread[t].kind = "write"
                       THEN [@ EXCEPT !.writer = t]
                       ELSE [@ EXCEPT !.readers = @ \cup {t}]]
    /\ thread' = [thread EXCEPT ![t].pc = "guard"]
    /\ UNCHANGED <<replacer_, result, bpmvars, latch_>>

\* guard drop, first half: RUnlatch() / WUnlatch() (nothing for a basic guard)
GuardUnlatch(t) ==
    /\ thread[t].pc = "guard"
    /\ rwlatch_' = [rwlatch_ EXCEPT ![thread[t].frame] =
                       [readers |-> @.readers \ {t},
                        writer |-> IF @.writer = t THEN 0 ELSE @.writer]]
    /\ thread' = [thread EXCEPT ![t].pc = "unlatched"]
    /\ UNCHANGED <<replacer_, result, bpmvars, latch_>>

\* guard drop, second half: UnpinPage(page->GetPageId(), is_dirty) takes the
\* manager mutex
UnpinLock(t) ==
    /\ thread[t].pc = "unlatched"
    /\ latch_ = 0
    /\ latch_' = t
    /\ thread' = [thread EXCEPT ![t].pc = "unpinning"]
    /\ UNCHANGED <<replacer_, result, bpmvars, rwlatch_>>

\* ... and runs UnpinPage; a write guard unpins dirty
GuardUnpin(t) ==
    /\ thread[t].pc = "unpinning"
    /\ latch_ = t
    /\ UnpinPage(pages_[thread[t].frame].page_id_, thread[t].kind = "write")
    /\ latch_' = 0
    /\ thread' = [thread EXCEPT ![t] = IdleThread]
    /\ UNCHANGED rwlatch_

NextGuards ==
    \/ \E t \in Threads : ClockBelow(MaxTime) /\ CallLock(t, "basic", INVALID_PAGE_ID)
                                                /\ UNCHANGED trievars
    \/ \E t \in Threads, kind \in {"read", "write"}, p \in PageIds :
          ClockBelow(MaxTime) /\ CallLock(t, kind, p) /\ UNCHANGED trievars
    \/ \E t \in Threads : FetchPageReturn(t) /\ UNCHANGED trievars
    \/ \E t \in Threads : NewPageGuarded(t) /\ UNCHANGED trievars
    \/ \E t \in Threads : PageLatch(t) /\ UNCHANGED trievars
    \/ \E t \in Threads : GuardUnlatch(t) /\ UNCHANGED trievars
    \/ \E t \in Threads : UnpinLock(t) /\ UNCHANGED trievars
    \/ \E t \in Threads : GuardUnpin(t) /\ UNCHANGED trievars

SpecGuards == Init /\ [][NextGuards]_vars

\* the threads that hold a page they fetched: pinned by FetchPage, the latch
\* not yet taken, or taken and not yet released
Fetched == {t \in Threads : thread[t].pc = "fetched"}
Latched == {t \in Threads : thread[t].pc = "guard" /\ thread[t].kind # "basic"}

\* C20: a page latch is acquired, and waited for, only by a thread that does
\* not hold the manager mutex and whose page is pinned: the holder of the
\* mutex is always inside the body of a manager call, which waits for
\* nothing, so a latch holder can take the mutex for its unpin; from the pin
\* to the release of the latch the frame keeps the page it was fetched for.
C20_LatchOutsideMutexWhilePinned ==
    /\ [](\A t \in Fetched \cup Latched : latch_ # t)
    /\ [](latch_ # 0 => thread[latch_].pc \in {"locked", "unpinning"})
    /\ [](\A t \in Fetched \cup Latched :
             /\ pages_[thread[t].frame].pin_count_ > 0
             /\ pages_[thread[t].frame].page_id_ = thread[t].page_id)
    /\ [][\A t \in Fetched :
             pages_'[thread[t].frame].page_id_ = thread[t].page_id]_vars

(***************************************************************************)
(* The node RecordAccess creates.                                          *)
(***************************************************************************)
\* the frames node_store_ has no node for
Unknown(r) == (0 .. (r.replacer_size_ - 1)) \ DOMAIN r.node_store_

\* C21: the first RecordAccess on an unknown frame creates a non-evictable
\* node and leaves Size() as it was, and Evict returns only a frame whose
\* node was made evictable by SetEvictable(frame, true) since.
C21_NewNodeNonEvictable ==
    /\ [][\A f \in Unknown(replacer_) :
             RecordAccess(f) =>
                /\ f \in TrackedWithFlag(replacer_', FALSE)
                /\ ReplacerSize(replacer_') = ReplacerSize(replacer_)]_vars
    /\ [][(result'.op = "Evict" /\ result'.ok)
             => result'.out \in TrackedWithFlag(replacer_, TRUE)]_vars

====
